---- MODULE Spec2Model ----
(***************************************************************************)
(* Model of the throttled, retrying streaming client of                    *)
(* src/Legal_Agent_Interface.py: the generator stream_agent together with  *)
(* its helpers is_rate_limit_error, backoff_sleep and throttle_guard, and  *)
(* the two entries of st.session_state it shares between calls             *)
(* (in_flight, last_request).                                              *)
(*                                                                         *)
(* One Streamlit session is modelled.  A call of stream_agent creates a    *)
(* generator object; nothing of its body runs before the consumer's first  *)
(* next().  A session's script runs in one thread, so a generator that has *)
(* been resumed runs until its next yield or until it exits before any     *)
(* other generator can be started, resumed or closed.                      *)
(*                                                                         *)
(* Time is in milliseconds.  Instead of wall-clock datetimes the model     *)
(* keeps ages (time elapsed since an instant), saturated at                *)
(* MIN_SECONDS_BETWEEN_REQUESTS: the code only ever compares an age with   *)
(* that constant.                                                          *)
(*                                                                         *)
(* Spec is stream_agent under an arbitrary consumer.  AppSpec is the       *)
(* Streamlit script of src/Legal_Agent_Interface.py, run once per user     *)
(* interaction, with stream_agent consumed by its chat handler; ChatSpec   *)
(* and DocSpec are that script in sessions where the user only chats and   *)
(* clears, and only uploads and clicks.  In these three, time is not       *)
(* advanced between steps: the ages feed only the sleeps of throttle_guard *)
(* and backoff_sleep, which change nothing else.  RouteSpec is the main    *)
(* loop and route() of src/KenAgent_Draft_workflow_Translation.py.         *)
(***************************************************************************)
EXTENDS Integers, Sequences, FiniteSets, TLC

\* ------------------------------------------------------------------ bounds
\* Generator objects (calls of stream_agent) created in the session.
NumCalls == 2
\* Events one opened stream delivers at most.
MaxEvents == 2
\* Text fragments one call receives at most, over all its attempts.
MaxYield == 2
\* random.random() is drawn from {0/RandSteps, ..., (RandSteps-1)/RandSteps}.
RandSteps == 2
\* Milliseconds that pass in one step of waiting (network or idle consumer).
Tick == 1000

\* ------------------------------------------------------- program constants
\* MIN_SECONDS_BETWEEN_REQUESTS = 2.5 (seconds), here in milliseconds.
MIN_SECONDS_BETWEEN_REQUESTS == 2500
MAX_RETRIES_429 == 6

\* Characters of a query typed at the "Query: " prompt, at most.
MaxQueryLen == 2

\* Conversations created in the session, at most.
MaxConversations == 2
\* "Reference document" requests to one conversation that fail, at most.
MaxDocFailures == 1

Calls == 1..NumCalls

\* "No instant yet": last_request is None / no request was issued so far.
NoTime == -1
\* No exception is being handled.
NoErr == << >>
\* No backoff_sleep was made since the last request was issued.
NoBackoff == [attempt |-> NoTime, delay |-> 0]

Payloads == {"a", "b"}
DELTA == "response.output_text.delta"
\* Event types a stream delivers; "None" is an event without a type attribute.
EventTypes == {DELTA, "response.completed", "None"}
\* A text-delta event carries a fragment; the payload of any other event is
\* written "-" (it is not text of the answer).
Events == [type : {DELTA}, delta : Payloads]
            \cup [type : EventTypes \ {DELTA}, delta : {"-"}]

\* str(e) of the exceptions the remote call raises, as character sequences.
ErrorMessages == { <<"4", "2", "9">>, <<"R", "a", "t", "e">>, <<"4", "0", "1">> }

\* KB_LANGUAGE of KenAgent_Draft_workflow_Translation.py
KB_LANGUAGE == "arabic"

\* Code points a query is made of: Latin "h", and the code points at and
\* next to the two ends of the range '\u0600'..'\u06FF'.
QueryChars == {104, 1535, 1536, 1791, 1792}

\* A chat prompt, by its length: 1 character, or 1501 characters (one more
\* than line 228 keeps).
Prompts == {"1 char", "1501 chars"}
\* The file in the sidebar uploader: none, one with readable text, one without.
Uploads == {"none", "text", "no text"}

VARIABLES
    in_flight,     \* st.session_state.in_flight (absent/None is FALSE)
    lastAge,       \* now - st.session_state.last_request, NoTime when None
    issueAge,      \* time since the most recent responses.create was issued
    lastBackoff,   \* attempt and delay of the backoff_sleep just made
    pc,            \* position of each generator
    attempt,       \* the loop variable of line 121
    nEvents,       \* number of events the currently open stream has delivered
    sent,          \* fragments of the text-delta events among them, in order
    yielded,       \* fragments the call has yielded to its consumer
    attemptStart,  \* Len(yielded) when the current attempt was issued
    err,           \* the exception being handled / propagated
    exit,          \* how the body is leaving: "return", "raise", "closed"
    outcome,       \* what the consumer observed when the generator ended
    requests,      \* responses.create calls issued by the call
    rlErrs,        \* attempts that failed with a rate-limit error
    otherErrs,     \* attempts that failed with another error
    sleeps,        \* backoff_sleep calls made by the call
    startedBusy,   \* in_flight as found by the call's first next()
    warned,        \* the call emitted st.warning("Request already running")
    \* route() and main() of KenAgent_Draft_workflow_Translation.py
    rpc,           \* position in main() / route()
    query,         \* the query read by input(), as code points
    q_lang,        \* detect_language(query)
    calls,         \* translate / get_response calls route() has made, in order
    \* the script of Legal_Agent_Interface.py, lines 154-247
    hpc,           \* position of the script run ("idle": no run in progress)
    trigger,       \* the interaction this run serves: prompt, clear, new, none
    prompt,        \* the value st.chat_input returned
    uploaded,      \* the file held by st.sidebar.file_uploader
    doc_sent,      \* st.session_state.doc_sent
    conversation_id, \* st.session_state.conversation_id
    docIssued,     \* "Reference document" requests issued to this conversation
    docReturned,   \* those of them that returned
    messages,      \* st.session_state.messages
    before,        \* messages when the chat handler was entered
    cur,           \* the generator the chat handler iterates
    full,          \* the local full of lines 237-245
    caught,        \* the exception stream_agent raised to the handler
    got            \* the fragments the generator yielded before it ended

streamVars == << in_flight, lastAge, issueAge, lastBackoff, pc,
           attempt, nEvents, sent, yielded, attemptStart, err, exit, outcome, requests,
           rlErrs, otherErrs, sleeps, startedBusy, warned >>

routeVars == << rpc, query, q_lang, calls >>

docVars == << uploaded, doc_sent, conversation_id, docIssued, docReturned >>
chatVars == << prompt, messages, before, cur, full, caught, got >>
appVars == << hpc, trigger, docVars, chatVars >>

vars == << streamVars, routeVars, appVars >>

timeVars == << lastAge, issueAge, lastBackoff >>
callVars == << attempt, nEvents, sent, yielded, attemptStart, err, exit, requests,
               rlErrs, otherErrs, sleeps >>

\* ----------------------------------------------------------------- helpers
Min(a, b) == IF a < b THEN a ELSE b

\* An age d milliseconds later (saturated; NoTime stays NoTime).
Later(age, d) ==
    IF age = NoTime THEN NoTime ELSE Min(age + d, MIN_SECONDS_BETWEEN_REQUESTS)

\* str.lower() on the characters error messages use.
LowerChar(ch) ==
    CASE ch = "R" -> "r" [] ch = "A" -> "a" [] ch = "T" -> "t" [] ch = "E" -> "e"
      [] OTHER -> ch
Lower(s) == [i \in 1..Len(s) |-> LowerChar(s[i])]

\* sub in s
Contains(sub, s) ==
    \E i \in 0..(Len(s) - Len(sub)) :
        \A j \in 1..Len(sub) : s[i + j] = sub[j]

\* is_rate_limit_error(e)
IsRateLimitError(e) ==
    \/ Contains(<<"4", "2", "9">>, e)
    \/ Contains(<<"r", "a", "t", "e">>, Lower(e))

\* (the exponential delay without its cap)
BackoffBaseUncapped(n) == 800 * (2 ^ n)

\* min(20, 0.8 * (2 ** attempt)), in milliseconds
BackoffBase(n) == Min(20000, 800 * (2 ^ n))

\* delay *= (0.75 + random.random() * 0.5), random.random() = r / RandSteps
BackoffDelay(n, r) ==
    (BackoffBase(n) * (750 * RandSteps + 500 * r)) \div (1000 * RandSteps)

\* (a guard that never finds the flag set)
NeverRunning == FALSE

\* st.session_state.get("in_flight") of line 112
AlreadyRunning == in_flight

\* (a release written after the loop instead of in a finally clause: it is
\* skipped when the body is left by an exception)
InFlightLeakedOnRaise(how) == how = "raise"

\* (a release in an "except Exception" clause and after the loop:
\* GeneratorExit passes both)
InFlightLeakedOnClose(how) == how = "closed"

\* st.session_state.in_flight = False of line 148, whichever way the body is
\* left
InFlightAfterExit(how) == FALSE

\* (an early return placed inside the try block: the finally clause runs and
\* clears the flag the running call holds)
InFlightReleasedByBusyReturn(flag) == FALSE

\* in_flight after the return of line 114: it precedes the try of line 118, so
\* the finally clause does not run and the flag is left as found
InFlightAfterBusyReturn(flag) == flag

\* (a loop that does not advance its counter)
AttemptStuck(n) == n

\* the next value of the loop variable of line 121, range(MAX_RETRIES_429 + 1)
AttemptAfter(n) == n + 1

\* (a retry of every error)
ShouldRetryAnyError(e, n) == n < MAX_RETRIES_429

\* (a retry budget one too large)
ShouldRetryOnceMore(e, n) == IsRateLimitError(e) /\ n <= MAX_RETRIES_429

\* the condition of line 142
ShouldRetry(e, n) == IsRateLimitError(e) /\ n < MAX_RETRIES_429

\* (no filter on the event type)
IsAnyEvent(ev) == TRUE

\* the condition of line 137
IsTextDelta(ev) == ev.type = DELTA

\* No generator is in the middle of running its body: the consumer has the
\* thread.
ConsumerRuns == \A c \in Calls : pc[c] \in {"init", "yielded", "done"}

\* ------------------------------------------------------------------- Init
StreamInit ==
    /\ in_flight = FALSE
    /\ lastAge = NoTime
    /\ issueAge = NoTime
    /\ lastBackoff = NoBackoff
    /\ pc = [c \in Calls |-> "init"]
    /\ attempt = [c \in Calls |-> 0]
    /\ nEvents = [c \in Calls |-> 0]
    /\ sent = [c \in Calls |-> << >>]
    /\ yielded = [c \in Calls |-> << >>]
    /\ attemptStart = [c \in Calls |-> 0]
    /\ err = [c \in Calls |-> NoErr]
    /\ exit = [c \in Calls |-> "none"]
    /\ outcome = [c \in Calls |-> "none"]
    /\ requests = [c \in Calls |-> 0]
    /\ rlErrs = [c \in Calls |-> 0]
    /\ otherErrs = [c \in Calls |-> 0]
    /\ sleeps = [c \in Calls |-> 0]
    /\ startedBusy = [c \in Calls |-> FALSE]
    /\ warned = [c \in Calls |-> FALSE]

\* ---------------------------------------------------------------- actions
\* First next() on the generator: lines 112-116.  The generators are numbered
\* in the order of their first next().
Start(c) ==
    /\ pc[c] = "init"
    /\ ConsumerRuns
    /\ \A d \in Calls : d < c => pc[d] # "init"
    /\ startedBusy' = [startedBusy EXCEPT ![c] = in_flight]
    /\ IF AlreadyRunning
         THEN /\ warned' = [warned EXCEPT ![c] = TRUE]
              /\ pc' = [pc EXCEPT ![c] = "done"]
              /\ outcome' = [outcome EXCEPT ![c] = "returned"]
              /\ in_flight' = InFlightAfterBusyReturn(in_flight)
         ELSE /\ in_flight' = TRUE
              /\ pc' = [pc EXCEPT ![c] = "throttle"]
              /\ UNCHANGED << warned, outcome >>
    /\ UNCHANGED << timeVars, callVars >>

\* throttle_guard(), lines 73-80, called at line 119; then the loop is entered
\* with attempt = 0.
ThrottleGuard(c) ==
    /\ pc[c] = "throttle"
    /\ LET wait == IF lastAge # NoTime /\ lastAge < MIN_SECONDS_BETWEEN_REQUESTS
                     THEN MIN_SECONDS_BETWEEN_REQUESTS - lastAge
                     ELSE 0
       IN  /\ issueAge' = Later(issueAge, wait)
           /\ lastAge' = 0
    /\ attempt' = [attempt EXCEPT ![c] = 0]
    /\ pc' = [pc EXCEPT ![c] = "request"]
    /\ UNCHANGED << in_flight, lastBackoff, nEvents, sent, yielded, attemptStart, err,
                    exit, outcome, requests, rlErrs, otherErrs, sleeps, startedBusy,
                    warned >>

\* openai_client.responses.create(...) is called: lines 123-134.
Request(c) ==
    /\ pc[c] = "request"
    /\ requests' = [requests EXCEPT ![c] = @ + 1]
    /\ issueAge' = 0
    /\ lastBackoff' = NoBackoff
    /\ nEvents' = [nEvents EXCEPT ![c] = 0]
    /\ sent' = [sent EXCEPT ![c] = << >>]
    /\ attemptStart' = [attemptStart EXCEPT ![c] = Len(yielded[c])]
    /\ pc' = [pc EXCEPT ![c] = "awaiting"]
    /\ UNCHANGED << in_flight, lastAge, attempt, yielded, err, exit, outcome,
                    rlErrs, otherErrs, sleeps, startedBusy, warned >>

\* The exception e reaches the except clause of line 141.
Raised(c, e) ==
    /\ err' = [err EXCEPT ![c] = e]
    /\ rlErrs' = [rlErrs EXCEPT ![c] = IF IsRateLimitError(e) THEN @ + 1 ELSE @]
    /\ otherErrs' = [otherErrs EXCEPT ![c] = IF IsRateLimitError(e) THEN @ ELSE @ + 1]
    /\ pc' = [pc EXCEPT ![c] = "except"]

\* responses.create raises.
CreateRaises(c) ==
    /\ pc[c] = "awaiting"
    /\ \E e \in ErrorMessages : Raised(c, e)
    /\ UNCHANGED << in_flight, timeVars, attempt, nEvents, sent, yielded, attemptStart,
                    exit, outcome, requests, sleeps, startedBusy, warned >>

\* responses.create returns the stream; line 136 starts iterating it.
CreateReturns(c) ==
    /\ pc[c] = "awaiting"
    /\ pc' = [pc EXCEPT ![c] = "iterating"]
    /\ UNCHANGED << in_flight, timeVars, callVars, outcome, startedBusy, warned >>

\* The stream delivers an event: lines 136-138.  A text delta is yielded and
\* the generator is suspended at the yield.
StreamEvent(c) ==
    /\ pc[c] = "iterating"
    /\ nEvents[c] < MaxEvents
    /\ \E ev \in Events :
        /\ ev.type = DELTA => Len(yielded[c]) < MaxYield
        /\ nEvents' = [nEvents EXCEPT ![c] = @ + 1]
        /\ sent' = [sent EXCEPT ![c] = IF ev.type = DELTA THEN Append(@, ev.delta) ELSE @]
        /\ IF IsTextDelta(ev)
             THEN /\ yielded' = [yielded EXCEPT ![c] = Append(@, ev.delta)]
                  /\ pc' = [pc EXCEPT ![c] = "yielded"]
             ELSE UNCHANGED << yielded, pc >>
    /\ UNCHANGED << in_flight, timeVars, attempt, attemptStart, err, exit, outcome,
                    requests, rlErrs, otherErrs, sleeps, startedBusy, warned >>

\* Iterating the stream raises.
StreamRaises(c) ==
    /\ pc[c] = "iterating"
    /\ \E e \in ErrorMessages : Raised(c, e)
    /\ UNCHANGED << in_flight, timeVars, attempt, nEvents, sent, yielded, attemptStart,
                    exit, outcome, requests, sleeps, startedBusy, warned >>

\* The stream is exhausted: the return of line 139.
StreamEnds(c) ==
    /\ pc[c] = "iterating"
    /\ exit' = [exit EXCEPT ![c] = "return"]
    /\ pc' = [pc EXCEPT ![c] = "finally"]
    /\ UNCHANGED << in_flight, timeVars, attempt, nEvents, sent, yielded, attemptStart,
                    err, outcome, requests, rlErrs, otherErrs, sleeps, startedBusy,
                    warned >>

\* The consumer asks for the next fragment: the generator resumes after the
\* yield of line 138.
Resume(c) ==
    /\ pc[c] = "yielded"
    /\ ConsumerRuns
    /\ pc' = [pc EXCEPT ![c] = "iterating"]
    /\ UNCHANGED << in_flight, timeVars, callVars, outcome, startedBusy, warned >>

\* The consumer stops pulling and the generator is closed (close(), or the
\* object is collected): GeneratorExit is raised at the yield of line 138.  It
\* is no Exception, so line 141 does not catch it.
Close(c) ==
    /\ pc[c] = "yielded"
    /\ ConsumerRuns
    /\ exit' = [exit EXCEPT ![c] = "closed"]
    /\ pc' = [pc EXCEPT ![c] = "finally"]
    /\ UNCHANGED << in_flight, timeVars, attempt, nEvents, sent, yielded, attemptStart,
                    err, outcome, requests, rlErrs, otherErrs, sleeps, startedBusy,
                    warned >>

\* The except clause, lines 141-145: backoff_sleep (lines 67-70) and continue,
\* or re-raise.  After continue the loop of line 121 takes the next attempt, or
\* is exhausted and the body falls through to its end.
Except(c) ==
    /\ pc[c] = "except"
    /\ IF ShouldRetry(err[c], attempt[c])
         THEN /\ \E r \in 0..(RandSteps - 1) :
                   LET delay == BackoffDelay(attempt[c], r)
                   IN  /\ lastBackoff' = [attempt |-> attempt[c], delay |-> delay]
                       /\ lastAge' = Later(lastAge, delay)
                       /\ issueAge' = Later(issueAge, delay)
              /\ sleeps' = [sleeps EXCEPT ![c] = @ + 1]
              /\ err' = [err EXCEPT ![c] = NoErr]
              /\ IF AttemptAfter(attempt[c]) <= MAX_RETRIES_429
                   THEN /\ attempt' = [attempt EXCEPT ![c] = AttemptAfter(@)]
                        /\ pc' = [pc EXCEPT ![c] = "request"]
                        /\ UNCHANGED exit
                   ELSE /\ exit' = [exit EXCEPT ![c] = "return"]
                        /\ pc' = [pc EXCEPT ![c] = "finally"]
                        /\ UNCHANGED attempt
         ELSE /\ exit' = [exit EXCEPT ![c] = "raise"]
              /\ pc' = [pc EXCEPT ![c] = "finally"]
              /\ UNCHANGED << lastBackoff, lastAge, issueAge, sleeps, err, attempt >>
    /\ UNCHANGED << in_flight, nEvents, sent, yielded, attemptStart, outcome, requests,
                    rlErrs, otherErrs, startedBusy, warned >>

\* The finally clause, lines 147-148; then the generator has ended and its
\* frame (attempt, stream, e) is gone.
Finally(c) ==
    /\ pc[c] = "finally"
    /\ in_flight' = InFlightAfterExit(exit[c])
    /\ outcome' = [outcome EXCEPT ![c] =
                     CASE exit[c] = "return" -> "returned"
                       [] exit[c] = "raise" -> "raised"
                       [] OTHER -> "closed"]
    /\ pc' = [pc EXCEPT ![c] = "done"]
    /\ attempt' = [attempt EXCEPT ![c] = 0]
    /\ nEvents' = [nEvents EXCEPT ![c] = 0]
    /\ sent' = [sent EXCEPT ![c] = << >>]
    /\ yielded' = [yielded EXCEPT ![c] = << >>]
    /\ attemptStart' = [attemptStart EXCEPT ![c] = 0]
    /\ err' = [err EXCEPT ![c] = NoErr]
    /\ exit' = [exit EXCEPT ![c] = "none"]
    /\ requests' = [requests EXCEPT ![c] = 0]
    /\ rlErrs' = [rlErrs EXCEPT ![c] = 0]
    /\ otherErrs' = [otherErrs EXCEPT ![c] = 0]
    /\ sleeps' = [sleeps EXCEPT ![c] = 0]
    /\ UNCHANGED << timeVars, startedBusy, warned >>

\* Time passes while the thread waits for the network or the consumer idles.
TimePasses ==
    /\ \A c \in Calls : pc[c] \in {"init", "yielded", "done", "awaiting", "iterating"}
    /\ Later(lastAge, Tick) # lastAge \/ Later(issueAge, Tick) # issueAge
    /\ lastAge' = Later(lastAge, Tick)
    /\ issueAge' = Later(issueAge, Tick)
    /\ UNCHANGED << in_flight, lastBackoff, pc, callVars, outcome, startedBusy,
                    warned >>

\* ------------------------------------- KenAgent_Draft_workflow_Translation
\* detect_language(text): "ar" when some character lies in '؀'..'ۿ'
DetectLanguage(text) ==
    IF \E i \in 1..Len(text) : 1536 <= text[i] /\ text[i] <= 1791
      THEN "ar" ELSE "en"

\* kb_lang of line 138
KbLang == IF KB_LANGUAGE = "arabic" THEN "ar" ELSE "en"

\* (an answer translated whatever the query language)
TranslateAnswerAlways(ql, kl) == TRUE

\* the condition of line 143
TranslateQuery(ql, kl) == ql # kl

\* the condition of line 159
TranslateAnswer(ql, kl) == ql # kl

TranslateCall(what, from, to) ==
    [fn |-> "translate", text |-> what, from |-> from, to |-> to]
AgentCall(name) ==
    [fn |-> "get_response", text |-> "working_query", from |-> name, to |-> name]

RouteInit ==
    /\ rpc = "input"
    /\ query = << >>
    /\ q_lang = "none"
    /\ calls = << >>

\* main(), lines 172-177: a query other than "exit" is read and route() is
\* called; line 137 detects its language.
ReadQuery ==
    /\ rpc = "input"
    /\ \E n \in 0..MaxQueryLen : \E q \in [1..n -> QueryChars] :
        /\ query' = q
        /\ q_lang' = DetectLanguage(q)
    /\ calls' = << >>
    /\ rpc' = "translate_query"
    /\ UNCHANGED << streamVars, appVars >>

\* main(), lines 173-175: "exit" is read and the loop is left.
ReadExit ==
    /\ rpc = "input"
    /\ rpc' = "exited"
    /\ UNCHANGED << query, q_lang, calls, streamVars, appVars >>

\* Lines 140-148: the query is translated to the KB language when its
\* language differs; the translation request returns or raises.
RouteTranslateQuery ==
    /\ rpc = "translate_query"
    /\ IF TranslateQuery(q_lang, KbLang)
         THEN /\ calls' = Append(calls, TranslateCall("query", q_lang, KbLang))
              /\ rpc' \in {"agent", "raised"}
         ELSE /\ rpc' = "agent"
              /\ UNCHANGED calls
    /\ UNCHANGED << query, q_lang, streamVars, appVars >>

\* Lines 151-156: the agent of the KB language answers, or the call raises.
RouteCallAgent ==
    /\ rpc = "agent"
    /\ calls' = Append(calls, AgentCall(IF KbLang = "ar" THEN "ArabicLegalAgent"
                                                         ELSE "EnglishLegalAgent"))
    /\ rpc' \in {"translate_answer", "raised"}
    /\ UNCHANGED << query, q_lang, streamVars, appVars >>

\* Lines 158-166: the answer is translated to the query language when the
\* languages differ, and route() returns.
RouteTranslateAnswer ==
    /\ rpc = "translate_answer"
    /\ IF TranslateAnswer(q_lang, KbLang)
         THEN /\ calls' = Append(calls, TranslateCall("answer", KbLang, q_lang))
              /\ rpc' \in {"returned", "raised"}
         ELSE /\ rpc' = "returned"
              /\ UNCHANGED calls
    /\ UNCHANGED << query, q_lang, streamVars, appVars >>

\* Line 178: the answer is printed and the loop reads the next query.
PrintAnswer ==
    /\ rpc = "returned"
    /\ rpc' = "input"
    /\ UNCHANGED << query, q_lang, calls, streamVars, appVars >>

RouteNext ==
    \/ ReadQuery
    \/ ReadExit
    \/ RouteTranslateQuery
    \/ RouteCallAgent
    \/ RouteTranslateAnswer
    \/ PrintAnswer

\* ----------------------------------------- the script, lines 154-247
\* prompt[:1500] of line 228
TruncatePrompt(p) == IF p = "1501 chars" THEN "1500 chars" ELSE p

\* f"Error: {e}" of line 244
ErrorText(e) == <<"E", "r", "r", "o", "r", ":", " ">> \o e

\* (the error text appended to the partial answer instead of replacing it)
FullAfterErrorAppended(f, e) == f \o ErrorText(e)

\* full after the except clause of lines 243-245
FullAfterError(f, e) == ErrorText(e)

\* (no check of doc_sent)
DocNeverSent == FALSE

\* st.session_state.doc_sent as read at line 184
DocAlreadySent == doc_sent

UserMessage(p) == [role |-> "user", content |-> << p >>]
AssistantMessage(f) == [role |-> "assistant", content |-> f]

\* Session state after the first run's initialisation, lines 154-164.
AppInit ==
    /\ hpc = "idle"
    /\ trigger = "none"
    /\ prompt = "none"
    /\ uploaded = "none"
    /\ doc_sent = FALSE
    /\ conversation_id = 1
    /\ docIssued = 0
    /\ docReturned = 0
    /\ messages = << >>
    /\ before = << >>
    /\ cur = 1
    /\ full = << >>
    /\ caught = NoErr
    /\ got = << >>

\* No script run is in progress and no generator is still running.
SessionIdle == hpc = "idle" /\ \A c \in Calls : pc[c] \in {"init", "done"}

\* The user changes the uploaded file: the script is rerun.
UserUploads ==
    /\ SessionIdle
    /\ \E u \in Uploads : u # uploaded /\ uploaded' = u
    /\ trigger' = "none"
    /\ hpc' = "sidebar"
    /\ UNCHANGED << doc_sent, conversation_id, docIssued, docReturned, chatVars,
                    streamVars, routeVars >>

\* The user submits a chat prompt.
UserSubmitsPrompt ==
    /\ SessionIdle
    /\ cur <= NumCalls
    /\ \E p \in Prompts : prompt' = p
    /\ trigger' = "prompt"
    /\ hpc' = "sidebar"
    /\ UNCHANGED << docVars, messages, before, cur, full, caught, got, streamVars,
                    routeVars >>

\* The user clicks "Clear chat".
UserClicksClear ==
    /\ SessionIdle
    /\ trigger' = "clear"
    /\ hpc' = "sidebar"
    /\ UNCHANGED << docVars, chatVars, streamVars, routeVars >>

\* The user clicks "New conversation".
UserClicksNew ==
    /\ SessionIdle
    /\ conversation_id < MaxConversations
    /\ trigger' = "new"
    /\ hpc' = "sidebar"
    /\ UNCHANGED << docVars, chatVars, streamVars, routeVars >>

\* Lines 177-199: the document is sent when a file with text is uploaded and
\* doc_sent is false.  The request returns, and doc_sent is set, or raises,
\* and the script run ends there.
UploadBlock ==
    /\ hpc = "sidebar"
    /\ IF uploaded = "text" /\ ~DocAlreadySent
         THEN /\ docIssued' = docIssued + 1
              /\ \/ /\ doc_sent' = TRUE
                    /\ docReturned' = docReturned + 1
                    /\ hpc' = "buttons"
                    /\ UNCHANGED trigger
                 \/ /\ docIssued - docReturned < MaxDocFailures
                    /\ hpc' = "idle"
                    /\ trigger' = "none"
                    /\ UNCHANGED << doc_sent, docReturned >>
         ELSE /\ hpc' = "buttons"
              /\ UNCHANGED << trigger, doc_sent, docIssued, docReturned >>
    /\ UNCHANGED << uploaded, conversation_id, chatVars, streamVars, routeVars >>

\* Lines 202-204: "Clear chat" empties the history and reruns the script.
ClearChat ==
    /\ hpc = "buttons"
    /\ trigger = "clear"
    /\ messages' = << >>
    /\ trigger' = "none"
    /\ hpc' = "sidebar"
    /\ UNCHANGED << docVars, prompt, before, cur, full, caught, got, streamVars,
                    routeVars >>

\* Lines 206-210: "New conversation" creates a conversation, empties the
\* history, clears doc_sent and reruns the script; or conversations.create
\* raises and the script run ends there.
NewConversation ==
    /\ hpc = "buttons"
    /\ trigger = "new"
    /\ trigger' = "none"
    /\ \/ /\ conversation_id' = conversation_id + 1
          /\ messages' = << >>
          /\ doc_sent' = FALSE
          /\ docIssued' = 0
          /\ docReturned' = 0
          /\ hpc' = "sidebar"
       \/ /\ hpc' = "idle"
          /\ UNCHANGED << conversation_id, messages, doc_sent, docIssued,
                          docReturned >>
    /\ UNCHANGED << uploaded, prompt, before, cur, full, caught, got, streamVars,
                    routeVars >>

\* Lines 216-231: no button was clicked; the history is rendered; a submitted
\* prompt is cut to 1500 characters and appended as the user entry, and the
\* generator is created.  Without a prompt the script run ends.
ChatInput ==
    /\ hpc = "buttons"
    /\ trigger \in {"none", "prompt"}
    /\ IF trigger = "prompt"
         THEN /\ before' = messages
              /\ messages' = Append(messages, UserMessage(TruncatePrompt(prompt)))
              /\ full' = << >>
              /\ caught' = NoErr
              /\ got' = << >>
              /\ hpc' = "loop"
         ELSE /\ hpc' = "idle"
              /\ UNCHANGED << messages, before, full, caught, got >>
    /\ UNCHANGED << trigger, docVars, prompt, cur, streamVars, routeVars >>

\* The for statement of line 240 asks the generator for its next fragment.
HandlerPulls ==
    /\ hpc = "loop"
    /\ \/ Start(cur)
       \/ Len(full) = Len(yielded[cur]) /\ Resume(cur)
    /\ UNCHANGED << appVars, routeVars >>

\* The body of a generator runs on; when it ends, the fragments it yielded
\* and the exception it raises reach its consumer.
GeneratorRuns(c) ==
    /\ \/ ThrottleGuard(c) \/ Request(c) \/ CreateRaises(c) \/ CreateReturns(c)
       \/ StreamEvent(c) \/ StreamRaises(c) \/ StreamEnds(c) \/ Except(c)
    /\ UNCHANGED << appVars, routeVars >>

GeneratorEnds(c) ==
    /\ Finally(c)
    /\ caught' = IF exit[c] = "raise" THEN err[c] ELSE NoErr
    /\ got' = IF exit[c] = "closed" THEN << >> ELSE yielded[c]
    /\ UNCHANGED << hpc, trigger, docVars, prompt, messages, before, cur, full,
                    routeVars >>

\* Lines 241-242: the fragment is added to full and shown.
Accumulate ==
    /\ hpc = "loop"
    /\ pc[cur] = "yielded"
    /\ Len(full) < Len(yielded[cur])
    /\ full' = Append(full, yielded[cur][Len(full) + 1])
    /\ UNCHANGED << hpc, trigger, docVars, prompt, messages, before, cur, caught,
                    got, streamVars, routeVars >>

\* The user interacts while the answer streams: Streamlit stops the script
\* run at box.markdown (line 242) with an exception that is no Exception, and
\* the suspended generator is collected.
Interrupt ==
    /\ hpc = "loop"
    /\ pc[cur] = "yielded"
    /\ Len(full) = Len(yielded[cur])
    /\ Close(cur)
    /\ hpc' = "idle"
    /\ trigger' = "none"
    /\ cur' = cur + 1
    /\ prompt' = "none"
    /\ full' = << >>
    /\ before' = << >>
    /\ UNCHANGED << docVars, messages, caught, got, routeVars >>

\* The generator has ended: the loop is left normally, or by the except
\* clause of lines 243-245.
LoopEnds ==
    /\ hpc = "loop"
    /\ pc[cur] = "done"
    /\ full' = IF outcome[cur] = "raised" THEN FullAfterError(full, caught) ELSE full
    /\ hpc' = "append"
    /\ UNCHANGED << trigger, docVars, prompt, messages, before, cur, caught, got,
                    streamVars, routeVars >>

\* Line 247.
AppendAssistant ==
    /\ hpc = "append"
    /\ messages' = Append(messages, AssistantMessage(full))
    /\ hpc' = "appended"
    /\ UNCHANGED << trigger, docVars, prompt, before, cur, full, caught, got,
                    streamVars, routeVars >>

\* The script run that handled the prompt is over; its locals are gone.
RunEnds ==
    /\ hpc = "appended"
    /\ hpc' = "idle"
    /\ trigger' = "none"
    /\ cur' = cur + 1
    /\ prompt' = "none"
    /\ full' = << >>
    /\ before' = << >>
    /\ caught' = NoErr
    /\ got' = << >>
    /\ UNCHANGED << docVars, messages, streamVars, routeVars >>

\* The user chats and clears the chat.
ChatNext ==
    \/ UserSubmitsPrompt
    \/ UserClicksClear
    \/ UploadBlock
    \/ ClearChat
    \/ ChatInput
    \/ HandlerPulls
    \/ \E c \in Calls : GeneratorRuns(c)
    \/ \E c \in Calls : GeneratorEnds(c)
    \/ Accumulate
    \/ Interrupt
    \/ LoopEnds
    \/ AppendAssistant
    \/ RunEnds

\* The user uploads files and clicks the two buttons.
DocNext ==
    \/ UserUploads
    \/ UserClicksClear
    \/ UserClicksNew
    \/ UploadBlock
    \/ ClearChat
    \/ NewConversation
    \/ ChatInput

AppNext == ChatNext \/ DocNext

\* ---------------------------------------------------------- specifications
Init == StreamInit /\ RouteInit /\ AppInit

Next ==
    \/ \E c \in Calls : Start(c) /\ UNCHANGED << routeVars, appVars >>
    \/ \E c \in Calls : ThrottleGuard(c) /\ UNCHANGED << routeVars, appVars >>
    \/ \E c \in Calls : Request(c) /\ UNCHANGED << routeVars, appVars >>
    \/ \E c \in Calls : CreateRaises(c) /\ UNCHANGED << routeVars, appVars >>
    \/ \E c \in Calls : CreateReturns(c) /\ UNCHANGED << routeVars, appVars >>
    \/ \E c \in Calls : StreamEvent(c) /\ UNCHANGED << routeVars, appVars >>
    \/ \E c \in Calls : StreamRaises(c) /\ UNCHANGED << routeVars, appVars >>
    \/ \E c \in Calls : StreamEnds(c) /\ UNCHANGED << routeVars, appVars >>
    \/ \E c \in Calls : Resume(c) /\ UNCHANGED << routeVars, appVars >>
    \/ \E c \in Calls : Close(c) /\ UNCHANGED << routeVars, appVars >>
    \/ \E c \in Calls : Except(c) /\ UNCHANGED << routeVars, appVars >>
    \/ \E c \in Calls : Finally(c) /\ UNCHANGED << routeVars, appVars >>
    \/ TimePasses /\ UNCHANGED << routeVars, appVars >>

Spec == Init /\ [][Next]_vars

RouteSpec == Init /\ [][RouteNext]_vars

AppSpec == Init /\ [][AppNext]_vars

ChatSpec == Init /\ [][ChatNext]_vars

DocSpec == Init /\ [][DocNext]_vars

\* A step of the body of generator c: the thread runs it, and the remote
\* service answers every request and every read of an open stream.
GeneratorStep(c) ==
    /\ \/ ThrottleGuard(c) \/ Request(c) \/ CreateRaises(c) \/ CreateReturns(c)
       \/ StreamEvent(c) \/ StreamRaises(c) \/ StreamEnds(c) \/ Except(c)
       \/ Finally(c)
    /\ UNCHANGED << routeVars, appVars >>

\* A step of the consumer of generator c: the first next(), a later next(),
\* or close().
ConsumerStep(c) ==
    /\ Start(c) \/ Resume(c) \/ Close(c)
    /\ UNCHANGED << routeVars, appVars >>

\* The steps of stream_agent and its consumers, without the passing of time
\* between them: every sleep is one step, and no step waits for an age.
FairNext == \E c \in Calls : GeneratorStep(c) \/ ConsumerStep(c)

\* The body of a resumed generator keeps running, every opened stream is
\* finite (MaxEvents) and the consumer keeps pulling.
FairSpec ==
    /\ Init
    /\ [][FairNext]_vars
    /\ WF_vars(\E c \in Calls : GeneratorStep(c))
    /\ WF_vars(\E c \in Calls : Resume(c) /\ UNCHANGED << routeVars, appVars >>)

\* ------------------------------------------------------------------ claims
\* A call that has passed the in-flight check and has not yet exited.
Active(c) == pc[c] \notin {"init", "done"}

\* The fragments the call has yielded since its current attempt was issued.
YieldedThisAttempt(c) == SubSeq(yielded[c], attemptStart[c] + 1, Len(yielded[c]))

\* C1: whenever stream_agent is about to issue a network request, whether the
\* first of a call or a retry, the previous request of the session (if any) was
\* issued at least MIN_SECONDS_BETWEEN_REQUESTS earlier.
C1_MinIntervalBetweenRequests ==
    \A c \in Calls :
        pc[c] = "request" =>
            issueAge = NoTime \/ issueAge >= MIN_SECONDS_BETWEEN_REQUESTS

C3_AtMostOneActive ==
    /\ Cardinality({c \in Calls : Active(c)}) <= 1
    /\ in_flight <=> (\E c \in Calls : Active(c))

C3_Witness ==
    \E c, d \in Calls :
        /\ pc[c] = "iterating" /\ Len(yielded[c]) > 0
        /\ startedBusy[d]

\* C4: every step by which a call that acquired the in-flight flag exits
\* (return after the stream is exhausted, exception after the retry budget,
\* exception of another failure, close) leaves in_flight false.
C4_ReleasedOnEveryExit ==
    [][\A c \in Calls :
          (Active(c) /\ pc'[c] = "done") => ~in_flight']_vars

C4_Witness ==
    \E c, d \in Calls :
        /\ c # d
        /\ outcome[c] = "raised" /\ ~startedBusy[c]
        /\ outcome[d] = "returned" /\ ~startedBusy[d]
        /\ ~in_flight

\* C5: a call that returns normally after k attempts rejected with a rate-limit
\* error has made exactly k+1 attempts, k <= MAX_RETRIES_429, and its last
\* attempt yielded the text-delta fragments of the successful stream in order.
C5_RetriesThenSucceeds ==
    \A c \in Calls :
        (pc[c] = "finally" /\ exit[c] = "return") =>
            /\ rlErrs[c] <= MAX_RETRIES_429
            /\ requests[c] = rlErrs[c] + 1
            /\ YieldedThisAttempt(c) = sent[c]

C5_Witness ==
    \E c \in Calls :
        /\ pc[c] = "finally" /\ exit[c] = "return"
        /\ rlErrs[c] = MAX_RETRIES_429
        /\ requests[c] = MAX_RETRIES_429 + 1
        /\ sent[c] = <<"b", "a">>

\* C6: a call never makes more than MAX_RETRIES_429 + 1 attempts, and a call
\* all of whose attempts were rejected with a rate-limit error exits only by
\* raising a rate-limit error, after exactly MAX_RETRIES_429 + 1 attempts.
C6_ExhaustedBudgetRaises ==
    \A c \in Calls :
        /\ requests[c] <= MAX_RETRIES_429 + 1
        /\ (pc[c] = "finally" /\ rlErrs[c] = requests[c]) =>
              /\ exit[c] = "raise"
              /\ IsRateLimitError(err[c])
              /\ requests[c] = MAX_RETRIES_429 + 1

C6_Witness ==
    \E c \in Calls :
        /\ pc[c] = "finally" /\ exit[c] = "raise"
        /\ rlErrs[c] = MAX_RETRIES_429 + 1
        /\ sleeps[c] = MAX_RETRIES_429

\* C7: once an attempt has failed with an error that is no rate-limit error,
\* the call makes no further attempt and no backoff sleep for it: it is
\* handling that error or leaving by raising it.
C7_OtherErrorNeverRetried ==
    \A c \in Calls :
        otherErrs[c] > 0 =>
            /\ otherErrs[c] = 1
            /\ pc[c] \in {"except", "finally"}
            /\ pc[c] = "finally" => exit[c] = "raise"
            /\ err[c] # NoErr /\ ~IsRateLimitError(err[c])
            /\ requests[c] = rlErrs[c] + 1
            /\ sleeps[c] = rlErrs[c]

C7_Witness ==
    \E c \in Calls :
        /\ pc[c] = "finally" /\ exit[c] = "raise"
        /\ otherErrs[c] = 1 /\ rlErrs[c] = 2 /\ requests[c] = 3

\* C8: when a call returns normally, all the fragments it yielded, over all
\* its attempts, are exactly the text-delta fragments of the successful stream.
C8_YieldedEqualsSuccessfulStream ==
    \A c \in Calls :
        (pc[c] = "finally" /\ exit[c] = "return") => yielded[c] = sent[c]

\* C9: while a request issued by stream_agent is outstanding, last_request is
\* the instant that request was issued.
C9_LastRequestIsIssueTime ==
    \A c \in Calls : pc[c] = "awaiting" => lastAge = issueAge

\* min(20, 0.8 * 2^n) of the claim, in milliseconds.
C10_Nominal(n) == IF 800 * (2 ^ n) < 20000 THEN 800 * (2 ^ n) ELSE 20000

\* C10: the delay backoff_sleep(n) sleeps lies within
\* [0.75 * min(20, 0.8 * 2^n), 1.25 * min(20, 0.8 * 2^n)] for an n in
\* 0..MAX_RETRIES_429-1, never exceeds 25 s, and the un-jittered delay is
\* non-decreasing in n.
C10_BackoffWithinBounds ==
    /\ lastBackoff # NoBackoff =>
          /\ lastBackoff.attempt \in 0..(MAX_RETRIES_429 - 1)
          /\ 4 * lastBackoff.delay >= 3 * C10_Nominal(lastBackoff.attempt)
          /\ 4 * lastBackoff.delay <= 5 * C10_Nominal(lastBackoff.attempt)
          /\ lastBackoff.delay <= 25000
    /\ \A n \in 0..(MAX_RETRIES_429 - 2) : BackoffBase(n) <= BackoffBase(n + 1)

C10_Witness ==
    /\ lastBackoff.attempt = MAX_RETRIES_429 - 1
    /\ lastBackoff.delay > 15000

\* C11: every call that has started executing eventually ends, under FairSpec
\* (finite streams, a consumer that keeps pulling); the loop variable is 0 at
\* the first request of every invocation, and no invocation issues more than
\* MAX_RETRIES_429 + 1 requests.
C11_AttemptsBounded ==
    \A c \in Calls :
        /\ requests[c] <= MAX_RETRIES_429 + 1
        /\ attempt[c] \in 0..MAX_RETRIES_429
        /\ (pc[c] = "request" /\ requests[c] = 0) => attempt[c] = 0
        /\ pc[c] \in {"request", "except"} => requests[c] = attempt[c] + (IF pc[c] = "except" THEN 1 ELSE 0)

C11_EveryCallTerminates ==
    /\ []C11_AttemptsBounded
    /\ (\E c \in Calls : Active(c)) ~> (\A c \in Calls : ~Active(c))

C11_Witness ==
    \E c, d \in Calls :
        /\ c < d
        /\ outcome[c] = "raised"
        /\ pc[d] = "request" /\ requests[d] = 0 /\ attempt[d] = 0

\* C14: the step by which a call is rejected because in_flight is true leaves
\* in_flight true and last_request as it was.
C14_RejectedCallChangesNothing ==
    [][\A c \in Calls :
          (pc[c] = "init" /\ pc'[c] # "init" /\ in_flight) =>
              /\ pc'[c] = "done"
              /\ in_flight'
              /\ lastAge' = lastAge
              /\ issueAge' = issueAge]_vars

C14_Witness ==
    \E c, d \in Calls :
        /\ startedBusy[c] /\ pc[c] = "done"
        /\ pc[d] = "yielded"
        /\ in_flight /\ lastAge # NoTime

\* C15: once a suspended generator has been closed, in_flight is false unless
\* another call is active, so a call started afterwards is not rejected.
C15_ClosedCallReleases ==
    /\ [](\A c \in Calls :
            outcome[c] = "closed" => (in_flight => \E d \in Calls : Active(d)))
    /\ [][\A d \in Calls :
            ( /\ pc[d] = "init" /\ pc'[d] # "init"
              /\ \E c \in Calls : outcome[c] = "closed"
              /\ \A e \in Calls : ~Active(e) )
            => (pc'[d] = "throttle" /\ ~warned'[d])]_vars

C15_Witness ==
    \E c, d \in Calls :
        /\ outcome[c] = "closed"
        /\ ~startedBusy[d] /\ pc[d] = "yielded"

\* C16: a route() call that returns has made exactly one agent call; when the
\* query language is the KB language it has made no translation call, and
\* otherwise exactly two, query language to KB language before the agent call
\* and KB language to query language after it.  At no point has an answer been
\* translated without the query having been translated.
C16_TranslatedBackIffTranslated ==
    /\ rpc = "returned" =>
          calls = IF q_lang = KbLang
                    THEN << AgentCall("ArabicLegalAgent") >>
                    ELSE << TranslateCall("query", q_lang, KbLang),
                            AgentCall("ArabicLegalAgent"),
                            TranslateCall("answer", KbLang, q_lang) >>
    /\ \A i \in 1..Len(calls) :
          (calls[i].fn = "translate" /\ calls[i].text = "answer") =>
              /\ i = 3
              /\ calls[1].fn = "translate" /\ calls[1].text = "query"
              /\ q_lang # KbLang

C16_Witness ==
    /\ rpc = "returned"
    /\ q_lang = "en" /\ Len(query) = MaxQueryLen /\ query[1] = 1792
    /\ Len(calls) = 3

C16_WitnessSameLanguage ==
    /\ rpc = "returned"
    /\ q_lang = "ar" /\ query[1] = 1791
    /\ Len(calls) = 1

\* C12: while a prompt is handled the history is the earlier entries followed
\* by the user entry; when line 247 has run it is the earlier entries followed
\* by exactly the user entry and one assistant entry, which is the error text
\* when stream_agent raised and the fragments it yielded otherwise; and no
\* other stream_agent call has been made for the prompt.
C12_TwoEntriesPerPrompt ==
    /\ hpc \in {"loop", "append"} =>
          messages = Append(before, UserMessage(TruncatePrompt(prompt)))
    /\ hpc = "appended" =>
          /\ messages = before \o
                << UserMessage(TruncatePrompt(prompt)),
                   AssistantMessage(IF outcome[cur] = "raised"
                                      THEN <<"E", "r", "r", "o", "r", ":", " ">> \o caught
                                      ELSE got) >>
          /\ \A c \in Calls : c > cur => pc[c] = "init"

C12_Witness ==
    /\ hpc = "appended"
    /\ Len(before) = 2
    /\ outcome[cur] = "raised" /\ got # << >>
    /\ Len(messages) = 4

C12_WitnessFirstAttempt ==
    /\ hpc = "appended"
    /\ outcome[cur] = "raised" /\ got = << >> /\ lastAge = 0

C12_WitnessSuccess ==
    /\ hpc = "appended"
    /\ Len(before) = 2
    /\ outcome[cur] = "returned" /\ got = <<"a", "b">>

\* C13 (as stated): at most one "Reference document" request is issued to a
\* conversation.
C13_DocumentRequestedOnce == docIssued <= 1

\* C13 (amended): at most one "Reference document" request to a conversation
\* returns; doc_sent is true exactly when one has returned; no such request is
\* issued while doc_sent is true; and doc_sent becomes false only in a step
\* that replaces conversation_id.
C13_DocumentStoredOnce ==
    /\ [](docReturned <= 1 /\ (doc_sent <=> docReturned = 1))
    /\ [][(doc_sent => docIssued' = docIssued \/ conversation_id' # conversation_id)
          /\ ((doc_sent /\ ~doc_sent') => conversation_id' # conversation_id)]_vars

C13_Witness ==
    /\ conversation_id = MaxConversations
    /\ doc_sent /\ docIssued = 2 /\ docReturned = 1
    /\ hpc = "idle"

====
